---------------------------- MODULE Spec2Model ----------------------------
(***************************************************************************)
(* Model of server.js: the challenge tracker's in-memory snapshot          *)
(* (challenge_title, augmented_challenge_list, TEAM_INFO), the             *)
(* augmentation of an update against CHALLENGE_METADATA, and the           *)
(* EventEmitter fan-out to the /stream connections.                        *)
(*                                                                         *)
(* Encoding of JavaScript values:                                          *)
(*   - an object is a record; a key whose value is undefined is a key      *)
(*     that is not in the record's DOMAIN;                                 *)
(*   - null and undefined in object position are NULL and UNDEFINED;       *)
(*   - an array is JSArray(s) for a sequence s; an object keyed by         *)
(*     challenge ids that may also be null is JSMap(f) for a function f;   *)
(*   - a primitive in object position is JSPrimitive; undefined in the     *)
(*     position of an opaque string is UndefinedString;                    *)
(*   - challenge ids, names and descriptions are strings the code takes    *)
(*     apart, so they are sequences of one-character strings;              *)
(*   - titles, icons, team names and colors are opaque TLA+ strings.       *)
(***************************************************************************)
EXTENDS Integers, Sequences, FiniteSets, TLC

VARIABLES
    CHALLENGE_METADATA,        \* server.js:13  the metadata store
    augmented_challenge_list,  \* server.js:16
    challenge_title,           \* server.js:28
    TEAM_INFO,                 \* server.js:38
    listeners,                 \* challengeUpdates' 'update' listeners, in order
    phase,                     \* per /stream connection: its lifecycle
    written,                   \* per /stream connection: chunks passed to res.write
    reqs,                      \* number of POST /update requests handled
    res,                       \* the response to the latest POST /update
    dropped,                   \* connections for which res.write returned false
                               \* during the latest POST /update
    origin,                    \* history: the request each stored field came from
    npublished,                \* history: the number of emits so far
    joined                     \* history: per connection, npublished when it
                               \* registered its listener

vars == <<CHALLENGE_METADATA, augmented_challenge_list, challenge_title,
          TEAM_INFO, listeners, phase, written, reqs, res, dropped, origin,
          npublished, joined>>

---------------------------------------------------------------------------
(* Bounds *)

MaxUpdates == 2
MaxConns == 2

---------------------------------------------------------------------------
(* JavaScript values *)

NULL == [jsnull |-> TRUE]
UNDEFINED == [jsundefined |-> TRUE]
JSPrimitive == [jsprimitive |-> "string"]
JSArray(s) == [jsarray |-> s]
JSMap(f) == [jsmap |-> f]
UndefinedString == "\\undefined"

\* v[key] of an object v: undefined when v has no such key
Get(v, key) == IF key \in DOMAIN v THEN v[key] ELSE UNDEFINED
\* the same for a key that holds an opaque string
GetString(v, key) == IF key \in DOMAIN v THEN v[key] ELSE UndefinedString

IsArray(v) == "jsarray" \in DOMAIN v
\* v is neither null nor undefined (objects and arrays are truthy)
Truthy(v) == "jsnull" \notin DOMAIN v /\ "jsundefined" \notin DOMAIN v
\* typeof v === 'object'
TypeofObject(v) == "jsundefined" \notin DOMAIN v /\ "jsprimitive" \notin DOMAIN v
\* key in v, for a truthy v of type object
HasKey(v, key) == key \in DOMAIN v

\* The value a lookup of an inherited Object.prototype key yields (a function
\* object): truthy, not a string, dropped by JSON.stringify.
FUNCTION_OBJECT == "[Function: Object]"
\* The keys every plain object inherits that the inputs exercise.
ObjectPrototypeChars == { <<"c","o","n","s","t","r","u","c","t","o","r">> }
ObjectPrototypeKeys == { "constructor" }
\* Function.prototype.name of the inherited constructor
ObjectFunctionName == <<"O","b","j","e","c","t">>

---------------------------------------------------------------------------
(* Strings as character sequences *)

LowerCase == <<"a","b","c","d","e","f","g","h","i","j","k","l","m",
               "n","o","p","q","r","s","t","u","v","w","x","y","z">>
UpperCase == <<"A","B","C","D","E","F","G","H","I","J","K","L","M",
               "N","O","P","Q","R","S","T","U","V","W","X","Y","Z">>
Whitespace == {" ", "\t", "\n"}

ToUpperChar(c) ==
    IF \E i \in 1..Len(LowerCase) : LowerCase[i] = c
    THEN UpperCase[CHOOSE i \in 1..Len(LowerCase) : LowerCase[i] = c]
    ELSE c
ToLowerChar(c) ==
    IF \E i \in 1..Len(UpperCase) : UpperCase[i] = c
    THEN LowerCase[CHOOSE i \in 1..Len(UpperCase) : UpperCase[i] = c]
    ELSE c

\* Variant: the description is tested without being trimmed
TrimNothing(s) == s

\* String.prototype.trim
Trim(s) ==
    LET keep == { i \in 1..Len(s) : s[i] \notin Whitespace }
    IN  IF keep = {} THEN << >>
        ELSE LET lo == CHOOSE i \in keep : \A j \in keep : i <= j
                 hi == CHOOSE i \in keep : \A j \in keep : j <= i
             IN  SubSeq(s, lo, hi)

\* challengeId.includes(":") ? challengeId.split(":").pop() : challengeId
displayName(challengeId) ==
    LET colons == { i \in 1..Len(challengeId) : challengeId[i] = ":" }
    IN  IF colons = {} THEN challengeId
        ELSE LET last == CHOOSE i \in colons : \A j \in colons : j <= i
             IN  SubSeq(challengeId, last + 1, Len(challengeId))

\* str.charAt(0).toUpperCase() + str.slice(1).toLowerCase()
toTitleCase(str) ==
    [i \in 1..Len(str) |->
        IF i = 1 THEN ToUpperChar(str[i]) ELSE ToLowerChar(str[i])]

---------------------------------------------------------------------------
(* Program constants and startup values *)

FALLBACK_ICON == "https://minecraft.wiki/images/Invicon_Grass_Block.png"

DEFAULT_TEAM_COLORS == <<"#229cc5", "#d1433b">>
DEFAULT_TEAMS == << [name |-> "Team A", color |-> DEFAULT_TEAM_COLORS[1]],
                    [name |-> "Team B", color |-> DEFAULT_TEAM_COLORS[2]] >>

\* DEFAULT_TEAM_COLORS[idx % DEFAULT_TEAM_COLORS.length], idx counted from 1 here
DefaultColor(idx) == DEFAULT_TEAM_COLORS[((idx - 1) % Len(DEFAULT_TEAM_COLORS)) + 1]

\* The placeholder list the server starts with.
InitialChallengeList ==
    (<<"s","e","t","u","p">> :>
        [done |-> TRUE, name |-> <<"T","h","i","s">>, icon |-> FALLBACK_ICON,
         description |-> << >>, team |-> "Team A"])
    @@ (<<"d","e","s","i","g","n">> :>
        [done |-> TRUE, name |-> <<"W","i","d","g","e","t">>, icon |-> FALLBACK_ICON,
         description |-> << >>, team |-> "Team B"])
    @@ (<<"f","r","o","n","t","e","n","d">> :>
        [done |-> TRUE, name |-> <<"W","a","s">>, icon |-> FALLBACK_ICON,
         description |-> << >>, team |-> "Team B"])
    @@ (<<"b","a","c","k","e","n","d">> :>
        [done |-> FALSE, name |-> <<"C","r","e","a","t","e","d">>, icon |-> FALLBACK_ICON,
         description |-> << >>])
    @@ (<<"t","e","s","t","i","n","g">> :>
        [done |-> FALSE, name |-> <<"B","y">>, icon |-> FALLBACK_ICON,
         description |-> << >>])
    @@ (<<"d","e","p","l","o","y","m","e","n","t">> :>
        [done |-> FALSE, name |-> <<"N","i","k","o","s","i","a","P","h","D">>,
         icon |-> FALLBACK_ICON,
         description |-> <<"n","i","k","o","s","i","a","p","h","d",".",
                           "g","i","t","h","u","b",".","i","o">>])
    @@ (<<"d","o","c","u","m","e","n","t","a","t","i","o","n">> :>
        [done |-> FALSE, name |-> <<"o","n">>, icon |-> FALLBACK_ICON,
         description |-> << >>])
    @@ (<<"r","e","v","i","e","w">> :>
        [done |-> FALSE, name |-> <<"T","w","i","t","c","h">>, icon |-> FALLBACK_ICON,
         description |-> <<"t","w","i","t","c","h",".","t","v","/",
                           "N","i","k","o","s","i","a","P","h","D">>])

InitialTitle == "Minecraft Challenge Tracker"
InitialTeamInfo == [teams |-> NULL]

---------------------------------------------------------------------------
(* The metadata store *)

AchDiamond == <<"a","c","h",":","d","i","a","m","o","n","d">>
NetherStar == <<"n","e","t","h","e","r","_","s","t","a","r">>

\* What loadChallengeMetadata can leave in CHALLENGE_METADATA: the empty
\* table (no file, or a parse failure), or the parsed file.  The store is
\* never written after startup.
EmptyMetadata == << >>
SampleMetadata ==
    AchDiamond :> [name |-> <<"D","i","a","m","o","n","d","s","!">>,
                   icon |-> "diamond.png",
                   description |-> <<"M","i","n","e">>]
\* A parsed file whose entry for ach:diamond has an icon only
SparseMetadata == AchDiamond :> [icon |-> "diamond.png"]
MetadataStores == { EmptyMetadata, SampleMetadata, SparseMetadata }

\* challengeId in CHALLENGE_METADATA: own keys and inherited ones
InMetadata(challengeId) ==
    \/ challengeId \in DOMAIN CHALLENGE_METADATA
    \/ challengeId \in ObjectPrototypeChars

\* CHALLENGE_METADATA[challengeId], for a challengeId that is `in` it
MetadataEntry(challengeId) ==
    IF challengeId \in DOMAIN CHALLENGE_METADATA
    THEN CHALLENGE_METADATA[challengeId]
    ELSE [name |-> ObjectFunctionName]

---------------------------------------------------------------------------
(* augmentChallengeData *)

\* teamColorMap: the own keys the forEach writes (a later team of the same
\* name overwrites an earlier one)
teamColorMap(teamInfo) ==
    IF Truthy(teamInfo) /\ Truthy(teamInfo.teams)
    THEN LET teams == teamInfo.teams.jsarray
             names == { teams[i].name : i \in 1..Len(teams) }
         IN  [n \in names |->
                LET idx == CHOOSE i \in 1..Len(teams) :
                             /\ teams[i].name = n
                             /\ \A j \in 1..Len(teams) : teams[j].name = n => j <= i
                IN  IF "color" \in DOMAIN teams[idx] /\ teams[idx].color # ""
                    THEN teams[idx].color
                    ELSE DefaultColor(idx)]
    ELSE << >>

\* teamColorMap[name] is truthy
HasTeamColor(map, name) == name \in DOMAIN map \/ name \in ObjectPrototypeKeys
\* teamColorMap[name], when truthy
TeamColorOf(map, name) == IF name \in DOMAIN map THEN map[name] ELSE FUNCTION_OBJECT

\* The loop body of augmentChallengeData for one entry that does not throw
AugmentOne(challengeId, challengeInfo, map) ==
    LET hasDesc == "description" \in DOMAIN challengeInfo
                   /\ challengeInfo.description # << >>
        base ==
            IF InMetadata(challengeId)
            THEN LET meta == MetadataEntry(challengeId)
                 IN  [name |-> IF "name" \in DOMAIN meta /\ meta.name # << >>
                               THEN meta.name
                               ELSE toTitleCase(displayName(challengeId)),
                      icon |-> IF "icon" \in DOMAIN meta /\ meta.icon # ""
                               THEN meta.icon
                               ELSE FALLBACK_ICON,
                      description |->
                          IF hasDesc /\ Trim(challengeInfo.description) # << >>
                          THEN challengeInfo.description
                          ELSE IF "description" \in DOMAIN meta
                                  /\ meta.description # << >>
                               THEN meta.description
                               ELSE << >>]
            ELSE [name |-> toTitleCase(displayName(challengeId)),
                  icon |-> FALLBACK_ICON,
                  description |-> IF hasDesc THEN challengeInfo.description
                                  ELSE << >>]
        withDone ==
            IF "done" \in DOMAIN challengeInfo
            THEN base @@ [done |-> challengeInfo.done]
            ELSE base
        teamed == /\ "team" \in DOMAIN challengeInfo
                  /\ challengeInfo.team # ""
                  /\ HasTeamColor(map, challengeInfo.team)
    IN  IF teamed
        THEN withDone @@ [team |-> challengeInfo.team,
                          team_color |-> TeamColorOf(map, challengeInfo.team)]
        ELSE withDone @@ [team |-> "", team_color |-> ""]

\* augmentChallengeData throws a TypeError: Object.entries(null), or
\* challengeInfo.done read from a null record
AugmentThrows(challengeData) ==
    \/ ~Truthy(challengeData)
    \/ \E id \in DOMAIN challengeData.jsmap : ~Truthy(challengeData.jsmap[id])

\* Variant: the team colors are taken from the stored TEAM_INFO instead of
\* the teamInfo argument
augmentWithStoredTeams(challengeData, teamInfo) ==
    [id \in DOMAIN challengeData.jsmap |->
        AugmentOne(id, challengeData.jsmap[id], teamColorMap(TEAM_INFO))]

\* The returned augmentedChallenges, when nothing throws
augmentChallengeData(challengeData, teamInfo) ==
    [id \in DOMAIN challengeData.jsmap |->
        AugmentOne(id, challengeData.jsmap[id], teamColorMap(teamInfo))]

---------------------------------------------------------------------------
(* The snapshot and its serialization *)

\* The object both GET / and POST /update hand to JSON.stringify
CurrentSnapshot ==
    [title |-> challenge_title,
     challenges |-> augmented_challenge_list,
     teams |-> TEAM_INFO.teams]

\* JSON.stringify of one challenge record: a function-valued property is
\* left out (team_color is the only property the code can set to one)
StringifyChallenge(c) ==
    [k \in { k \in DOMAIN c :
               ~(k = "team_color" /\ c[k] = FUNCTION_OBJECT) } |-> c[k]]

\* JSON.stringify({title, challenges, teams})
JSONStringify(snapshot) ==
    [title |-> snapshot.title,
     challenges |-> [id \in DOMAIN snapshot.challenges |->
                        StringifyChallenge(snapshot.challenges[id])],
     teams |-> snapshot.teams]

\* initialData of GET /
initialData == JSONStringify(CurrentSnapshot)

---------------------------------------------------------------------------
(* The broadcast: challengeUpdates and the /stream connections *)

Conns == 1..MaxConns

\* 'data: connected\n\n'
ConnectedChunk == [literal |-> "data: connected\n\n"]
\* `data: ${message}\n\n`
DataChunk(message) == [data |-> message]

\* res.write returns false for a chunk it could not hand to the transport
WriteFails(ph) == ph # "open"

\* Variant: a write to a dead transport throws into updateHandler
updateHandlerThrowsOnDeadTransport(ph) == ph = "broken"

\* res.write of a string chunk reports a dead transport by returning false
\* and through the 'error' event; it does not throw into updateHandler.
updateHandlerThrows(ph) == FALSE

\* EventEmitter.removeListener: the most recently added instance goes
\* Variant: the listener is not found and stays registered
removeListenerKeeps(ls, c) == ls

\* Variant: a listener that is not found takes the last one with it
\* (splice(indexOf(listener), 1) with indexOf = -1)
removeListenerSplices(ls, c) ==
    LET at == { i \in 1..Len(ls) : ls[i] = c }
    IN  IF at = {} THEN SubSeq(ls, 1, Len(ls) - 1)
        ELSE LET last == CHOOSE i \in at : \A j \in at : j <= i
             IN  SubSeq(ls, 1, last - 1) \o SubSeq(ls, last + 1, Len(ls))

removeListener(ls, c) ==
    LET at == { i \in 1..Len(ls) : ls[i] = c }
    IN  IF at = {} THEN ls
        ELSE LET last == CHOOSE i \in at : \A j \in at : j <= i
             IN  SubSeq(ls, 1, last - 1) \o SubSeq(ls, last + 1, Len(ls))

\* EventEmitter.emit('update', message): the listeners registered when emit
\* starts are called in registration order; a listener that throws ends the
\* emit and the exception reaches emit's caller.
RECURSIVE EmitFrom(_, _, _, _, _)
EmitFrom(ls, i, message, wr, dr) ==
    IF i > Len(ls) THEN [written |-> wr, dropped |-> dr, threw |-> FALSE]
    ELSE IF updateHandlerThrows(phase[ls[i]])
         THEN [written |-> wr, dropped |-> dr, threw |-> TRUE]
         ELSE EmitFrom(ls, i + 1, message,
                       [wr EXCEPT ![ls[i]] = Append(@, DataChunk(message))],
                       IF WriteFails(phase[ls[i]]) THEN dr \cup {ls[i]} ELSE dr)

\* Variant: the most recently registered listener is not called
emitSkipsLast(message) ==
    EmitFrom(SubSeq(listeners, 1, Len(listeners) - 1), 1, message, written, {})

\* Variant: a listener whose latest chunk already is this message is
\* passed over
RECURSIVE EmitCoalescingFrom(_, _, _, _)
EmitCoalescingFrom(ls, i, message, wr) ==
    IF i > Len(ls) THEN [written |-> wr, dropped |-> {}, threw |-> FALSE]
    ELSE EmitCoalescingFrom(ls, i + 1, message,
            IF wr[ls[i]][Len(wr[ls[i]])] = DataChunk(message) THEN wr
            ELSE [wr EXCEPT ![ls[i]] = Append(@, DataChunk(message))])

emitCoalesces(message) == EmitCoalescingFrom(listeners, 1, message, written)

emit(message) == EmitFrom(listeners, 1, message, written, {})

---------------------------------------------------------------------------
(* POST /update *)

NoResponse == [status |-> 0]
OkResponse == [status |-> 200, message |-> "Challenge list updated."]
InvalidResponse ==
    [status |-> 400, error |-> "Invalid JSON format. Expected a dictionary."]
MissingResponse ==
    [status |-> 400, error |-> "Missing 'title' or 'challenges' in request data."]
MalformedResponse == [status |-> 400, error |-> "Malformed JSON."]

\* !data || typeof data !== 'object'
NotADictionary(data) == ~Truthy(data) \/ ~TypeofObject(data)
\* Variant: rejects only a body that lacks both keys
MissingKeysConjoined(data) ==
    ~HasKey(data, "title") /\ ~HasKey(data, "challenges")

\* !("title" in data) || !("challenges" in data)
MissingKeys(data) == ~HasKey(data, "title") \/ ~HasKey(data, "challenges")

\* "teams" in data && Array.isArray(data.teams) && data.teams.length === 2
TeamsAccepted(data) ==
    /\ HasKey(data, "teams")
    /\ IsArray(Get(data, "teams"))
    /\ Len(Get(data, "teams").jsarray) = 2

\* data.teams.map throws a TypeError reading team.name of a null entry
MapTeamsThrows(teams) ==
    \E i \in 1..Len(teams.jsarray) : ~Truthy(teams.jsarray[i])

\* data.teams.map((team, idx) => ({name: ..., color: ...}))
MapTeams(teams) ==
    JSArray([i \in 1..Len(teams.jsarray) |->
        LET team == teams.jsarray[i]
        IN  [name |-> IF "name" \in DOMAIN team /\ team.name # ""
                      THEN team.name ELSE DEFAULT_TEAMS[i].name,
             color |-> IF "color" \in DOMAIN team /\ team.color # ""
                       THEN team.color ELSE DefaultColor(i)]])

\* Lines 184-193: the message is emitted and the response sent.  `sent` is
\* what emit did.
Respond(title, list, teamInfo, sent) ==
    [title |-> title,
     challenges |-> list,
     teamInfo |-> teamInfo,
     written |-> sent.written,
     dropped |-> sent.dropped,
     npublished |-> npublished + 1,
     stage |-> IF sent.threw THEN "emit" ELSE "done",
     res |-> IF sent.threw THEN MalformedResponse ELSE OkResponse]

\* Lines 178-193: the title and the augmented list are stored, then the
\* three stored values are serialized and emitted.
StoreAndPublish(title, list, teamInfo) ==
    Respond(title, list, teamInfo,
            emit(JSONStringify([title |-> title,
                                challenges |-> list,
                                teams |-> teamInfo.teams])))

\* Lines 167-193, with TEAM_INFO already assigned teamInfo
AfterTeams(data, teamInfo) ==
    IF AugmentThrows(Get(data, "challenges"))
    THEN [title |-> GetString(data, "title"),
          challenges |-> augmented_challenge_list,
          teamInfo |-> teamInfo,
          written |-> written,
          dropped |-> {},
          npublished |-> npublished,
          stage |-> "augment", res |-> MalformedResponse]
    ELSE StoreAndPublish(GetString(data, "title"),
                         augmentChallengeData(Get(data, "challenges"), teamInfo),
                         teamInfo)

\* A response sent with nothing assigned
Rejected(stage, response) ==
    [title |-> challenge_title,
     challenges |-> augmented_challenge_list,
     teamInfo |-> TEAM_INFO,
     written |-> written,
     dropped |-> {},
     npublished |-> npublished,
     stage |-> stage, res |-> response]

\* Variant: without an accepted 'teams' the stored teams are kept
UpdateOutcomeKeepsTeams(data) ==
    IF NotADictionary(data) THEN Rejected("invalid", InvalidResponse)
    ELSE IF MissingKeys(data) THEN Rejected("missing", MissingResponse)
    ELSE IF TeamsAccepted(data) /\ MapTeamsThrows(data.teams)
    THEN Rejected("teams", MalformedResponse)
    ELSE AfterTeams(data, IF TeamsAccepted(data)
                          THEN [teams |-> MapTeams(data.teams)]
                          ELSE TEAM_INFO)

\* What the handler does with req.body = data, as the values it leaves in
\* the module's variables and the response it sends.  `stage` is how far the
\* try block got: "invalid", "missing", "teams" (threw mapping the teams),
\* "augment" (threw in augmentChallengeData), "emit" (a listener threw),
\* "done".
UpdateOutcome(data) ==
    IF NotADictionary(data) THEN Rejected("invalid", InvalidResponse)
    ELSE IF MissingKeys(data) THEN Rejected("missing", MissingResponse)
    ELSE IF TeamsAccepted(data) /\ MapTeamsThrows(data.teams)
    THEN Rejected("teams", MalformedResponse)
    ELSE AfterTeams(data, [teams |-> IF TeamsAccepted(data)
                                     THEN MapTeams(data.teams) ELSE NULL])

---------------------------------------------------------------------------
(* Request bodies *)

Titles == { "Run 1" }

\* One challenge record: null, or {done: true, team: "Red"}
ChallengeInfos ==
    { NULL,
      [done |-> TRUE, team |-> "Red"] }

\* 'challenges': null, or an object with a record for ach:diamond (which
\* the metadata store knows) and one for nether_star (which it does not)
ChallengesInputs ==
    { NULL } \cup { JSMap((AchDiamond :> info) @@ (NetherStar :> [done |-> FALSE])) :
                      info \in ChallengeInfos }

TeamsInputs ==
    { JSPrimitive,
      JSArray(<< [name |-> "Red"] >>),
      JSArray(<< [name |-> "Red"], [name |-> "Blue", color |-> "#000"] >>),
      JSArray(<< NULL, [name |-> "Blue"] >>),
      JSArray(<< [name |-> "Red"], [name |-> "Blue"], [name |-> "Green"] >>) }

\* A JSON object with the keys `keys` among title, challenges and teams
Body(keys, title, challenges, teams) ==
    [k \in keys |-> IF k = "title" THEN title
                    ELSE IF k = "challenges" THEN challenges
                    ELSE teams]

\* Objects with both required keys, with and without 'teams'
CompleteBodies ==
    { Body(keys, t, c, tm) :
        keys \in { {"title", "challenges"}, {"title", "challenges", "teams"} },
        t \in Titles, c \in ChallengesInputs, tm \in TeamsInputs }

\* Objects that lack 'title', 'challenges' or both, {} among them
IncompleteBodies ==
    { Body(keys, "Run 1", JSMap(AchDiamond :> [done |-> TRUE]),
           JSArray(<< [name |-> "Red"], [name |-> "Blue"] >>)) :
        keys \in SUBSET {"title", "challenges", "teams"}
                  \ { {"title", "challenges"}, {"title", "challenges", "teams"} } }

\* req.body: no body, a JSON primitive, or a JSON object
Bodies == { UNDEFINED, JSPrimitive } \cup IncompleteBodies \cup CompleteBodies

---------------------------------------------------------------------------
(* Actions *)

Init ==
    /\ CHALLENGE_METADATA = SampleMetadata
    /\ augmented_challenge_list = InitialChallengeList
    /\ challenge_title = InitialTitle
    /\ TEAM_INFO = InitialTeamInfo
    /\ listeners = << >>
    /\ phase = [c \in Conns |-> "idle"]
    /\ written = [c \in Conns |-> << >>]
    /\ reqs = 0
    /\ res = NoResponse
    /\ origin = [title |-> 0, challenges |-> 0, teams |-> 0]
    /\ npublished = 0
    /\ dropped = {}
    /\ joined = [c \in Conns |-> 0]

\* app.post('/update')
PostUpdate(data) ==
    /\ reqs < MaxUpdates
    /\ \E out \in { UpdateOutcome(data) } :
           /\ challenge_title' = out.title
           /\ augmented_challenge_list' = out.challenges
           /\ TEAM_INFO' = out.teamInfo
           /\ written' = out.written
           /\ res' = out.res
           /\ npublished' = out.npublished
           /\ dropped' = out.dropped
           /\ origin' =
                IF out.stage \in {"invalid", "missing", "teams"} THEN origin
                ELSE IF out.stage = "augment"
                THEN [origin EXCEPT !.title = reqs + 1, !.teams = reqs + 1]
                ELSE [title |-> reqs + 1, challenges |-> reqs + 1,
                      teams |-> reqs + 1]
    /\ reqs' = reqs + 1
    /\ UNCHANGED <<CHALLENGE_METADATA, listeners, phase, joined>>

\* Variant: a new subscriber is sent the current snapshot on registering
GetStreamReplays(c) ==
    /\ phase[c] = "idle"
    /\ \A d \in Conns : d < c => phase[d] # "idle"
    /\ written' = [written EXCEPT
                      ![c] = << ConnectedChunk, DataChunk(initialData) >>]
    /\ listeners' = Append(listeners, c)
    /\ phase' = [phase EXCEPT ![c] = "open"]
    /\ joined' = [joined EXCEPT ![c] = npublished]
    /\ UNCHANGED <<CHALLENGE_METADATA, augmented_challenge_list, challenge_title,
                   TEAM_INFO, reqs, res, dropped, origin, npublished>>

\* app.get('/stream'): the headers, the connectivity line, the listener.
\* Each request is a new connection: the next one not yet used.
GetStream(c) ==
    /\ phase[c] = "idle"
    /\ \A d \in Conns : d < c => phase[d] # "idle"
    /\ written' = [written EXCEPT ![c] = Append(@, ConnectedChunk)]
    /\ listeners' = Append(listeners, c)
    /\ phase' = [phase EXCEPT ![c] = "open"]
    /\ joined' = [joined EXCEPT ![c] = npublished]
    /\ UNCHANGED <<CHALLENGE_METADATA, augmented_challenge_list, challenge_title,
                   TEAM_INFO, reqs, res, dropped, origin, npublished>>

\* The transport of an open connection fails; the server has not been told yet
TransportFails(c) ==
    /\ phase[c] = "open"
    /\ phase' = [phase EXCEPT ![c] = "broken"]
    /\ UNCHANGED <<CHALLENGE_METADATA, augmented_challenge_list, challenge_title,
                   TEAM_INFO, listeners, written, reqs, res, dropped,
                   origin, npublished, joined>>

\* req.on('error'): the failed transport is reported
ReqError(c) ==
    /\ phase[c] = "broken"
    /\ listeners' = removeListener(listeners, c)
    /\ phase' = [phase EXCEPT ![c] = "errored"]
    /\ UNCHANGED <<CHALLENGE_METADATA, augmented_challenge_list, challenge_title,
                   TEAM_INFO, written, reqs, res, dropped, origin,
                   npublished, joined>>

\* req.on('close'): the peer disconnected, or the failed connection is torn down
ReqClose(c) ==
    /\ phase[c] \in {"open", "broken", "errored"}
    /\ listeners' = removeListener(listeners, c)
    /\ phase' = [phase EXCEPT ![c] = "closed"]
    /\ UNCHANGED <<CHALLENGE_METADATA, augmented_challenge_list, challenge_title,
                   TEAM_INFO, written, reqs, res, dropped, origin,
                   npublished, joined>>

Next ==
    \/ \E data \in Bodies : PostUpdate(data)
    \/ \E c \in Conns : GetStream(c)
    \/ \E c \in Conns : TransportFails(c)
    \/ \E c \in Conns : ReqError(c)
    \/ \E c \in Conns : ReqClose(c)

Spec == Init /\ [][Next]_vars

---------------------------------------------------------------------------
(* Updates against each metadata store, without subscribers *)

\* Challenge ids: ach:diamond, nether_star, one with two colons and mixed
\* case, and one that is a key every plain object inherits
NestedId == <<"a",":","B",":","c","D">>
ConstructorId == <<"c","o","n","s","t","r","u","c","t","o","r">>
AugmentIds == { AchDiamond, NetherStar, NestedId, ConstructorId }

\* description: "", " ", "X", " X "
Descriptions == { << >>, <<" ">>, <<"X">>, <<" ","X"," ">> }
\* {done: true} with and without a description
DescribedInfos ==
    { [done |-> TRUE] } \cup { [done |-> TRUE, description |-> d] : d \in Descriptions }

TeamNames == { "", "Red", "Blue", "Green", "Team A", "constructor" }
\* {done: false} with and without a team
TeamedInfos ==
    { [done |-> FALSE] } \cup { [done |-> FALSE, team |-> t] : t \in TeamNames }

\* 'teams': a string, arrays of length 1 and 3, and arrays of length 2 with
\* and without colors, with a nameless entry, and with one name twice
AugmentTeams ==
    { JSPrimitive,
      JSArray(<< [name |-> "Red"] >>),
      JSArray(<< [name |-> "Red"], [name |-> "Blue"], [name |-> "Green"] >>),
      JSArray(<< [name |-> "Red"], [name |-> "Blue", color |-> "#000"] >>),
      JSArray(<< [color |-> "#111"], [name |-> "Red"] >>),
      JSArray(<< [name |-> "Red"], [name |-> "Red", color |-> "#000"] >>) }

\* Bodies with one described challenge and no 'teams', and bodies with a
\* challenge of each team under each 'teams' and under none
AugmentBodies ==
    { Body({"title", "challenges"}, "Run 1", JSMap(id :> info), NULL) :
        id \in AugmentIds, info \in DescribedInfos }
    \cup
    { Body(keys, "Run 2",
           JSMap((NetherStar :> info)
                 @@ (AchDiamond :> [done |-> TRUE, team |-> "Blue"])),
           tm) :
        keys \in { {"title", "challenges"}, {"title", "challenges", "teams"} },
        info \in TeamedInfos, tm \in AugmentTeams }

\* The server after loadChallengeMetadata, whatever data.json held
AugmentInit ==
    /\ CHALLENGE_METADATA \in MetadataStores
    /\ augmented_challenge_list = InitialChallengeList
    /\ challenge_title = InitialTitle
    /\ TEAM_INFO = InitialTeamInfo
    /\ listeners = << >>
    /\ phase = [c \in Conns |-> "idle"]
    /\ written = [c \in Conns |-> << >>]
    /\ reqs = 0
    /\ res = NoResponse
    /\ origin = [title |-> 0, challenges |-> 0, teams |-> 0]
    /\ npublished = 0
    /\ dropped = {}
    /\ joined = [c \in Conns |-> 0]

AugmentNext == \E data \in AugmentBodies : PostUpdate(data)

AugmentSpec == AugmentInit /\ [][AugmentNext]_vars

---------------------------------------------------------------------------
(* The server with subscribers, under updates that repeat a few bodies *)

\* One challenge of the team "Red": with the teams Red and Blue, without
\* 'teams', and with the teams but 'challenges' null
RepeatBodies ==
    { Body(keys, "Run 1", c,
           JSArray(<< [name |-> "Red"], [name |-> "Blue", color |-> "#000"] >>)) :
        keys \in { {"title", "challenges"}, {"title", "challenges", "teams"} },
        c \in { NULL, JSMap(AchDiamond :> [done |-> TRUE, team |-> "Red"]) } }

RepeatNext ==
    \/ \E data \in RepeatBodies : PostUpdate(data)
    \/ \E c \in Conns : GetStream(c)
    \/ \E c \in Conns : TransportFails(c)
    \/ \E c \in Conns : ReqError(c)
    \/ \E c \in Conns : ReqClose(c)

RepeatSpec == Init /\ [][RepeatNext]_vars

---------------------------------------------------------------------------
(* Properties *)

\* The connections whose updateHandler is registered on challengeUpdates
Registered == { listeners[i] : i \in 1..Len(listeners) }

\* A step that handles one POST /update
UpdateStep == reqs' = reqs + 1

\* C1: a POST /update that passes the validation and then runs into an
\* exception (the catch block's "Malformed JSON." answer) answers 400 and
\* leaves title, challenges and teams as they were before the request.
C1_FailedUpdateLeavesSnapshot ==
    [][ (UpdateStep /\ res' = MalformedResponse)
          => /\ res'.status = 400
             /\ CurrentSnapshot' = CurrentSnapshot ]_vars

\* The body has no 'title' or no 'challenges' (a missing or primitive body
\* has neither)
LacksRequiredKey(data) ==
    "title" \notin DOMAIN data \/ "challenges" \notin DOMAIN data

\* C2: a POST /update whose body is missing, is not an object, or lacks
\* 'title' or 'challenges' is answered 400, leaves title, challenges and
\* teams unchanged and writes nothing to any subscriber.
C2_MalformedRequestRejected ==
    [][ \A data \in Bodies :
          (LacksRequiredKey(data) /\ PostUpdate(data))
            => /\ res'.status = 400
               /\ CurrentSnapshot' = CurrentSnapshot
               /\ written' = written ]_vars

\* C2 witness: the body {} was rejected after an earlier update had stored a
\* snapshot and a subscriber had received it
C2_Witness ==
    /\ reqs = 2
    /\ res = MissingResponse
    /\ origin = [title |-> 1, challenges |-> 1, teams |-> 1]
    /\ \E c \in Registered : Len(written[c]) = 2

\* C3: a successful /update writes exactly one chunk, carrying the
\* serialized snapshot just stored, to every subscriber registered at the
\* publish, and nothing to a connection that is not registered.
C3_FanOut ==
    [][ (UpdateStep /\ res' = OkResponse)
          => \A c \in Conns :
               IF c \in Registered
               THEN written'[c] = Append(written[c], DataChunk(initialData'))
               ELSE written'[c] = written[c] ]_vars

\* C3 witness: connection 1 disconnected, then one update reached the
\* still-registered connection 2 and not connection 1
C3_Witness ==
    /\ reqs = 1
    /\ res = OkResponse
    /\ phase[1] = "closed"
    /\ written[1] = << ConnectedChunk >>
    /\ phase[2] = "open"
    /\ written[2] = << ConnectedChunk, DataChunk(initialData) >>

\* C4: the title, the challenges and the teams a reader obtains all come
\* from the same update request, or all from the startup placeholder.
C4_CompleteSnapshot ==
    /\ origin.title = origin.challenges
    /\ origin.challenges = origin.teams

\* C5: every stored challenge record has name, icon, description, team and
\* team_color, each a string.
C5_AllFieldsStrings ==
    \A id \in DOMAIN augmented_challenge_list :
        LET c == augmented_challenge_list[id]
        IN  /\ {"name", "icon", "description", "team", "team_color"}
                 \subseteq DOMAIN c
            /\ c.team # FUNCTION_OBJECT
            /\ c.team_color # FUNCTION_OBJECT

\* C6: every stored challenge with a non-empty team names a team of the
\* stored teams list.
C6_TeamIsListed ==
    \A id \in DOMAIN augmented_challenge_list :
        LET c == augmented_challenge_list[id]
        IN  ("team" \in DOMAIN c /\ c.team # "")
              => /\ Truthy(TEAM_INFO.teams)
                 /\ \E i \in 1..Len(TEAM_INFO.teams.jsarray) :
                        TEAM_INFO.teams.jsarray[i].name = c.team

\* The lifecycle phases in which the connection has been closed: its
\* 'error' or its 'close' event has been handled
ClosedPhases == {"errored", "closed"}

\* C7: a closed connection is unregistered, is never written to again and
\* never leaves the closed phases.
C7_ClosedIsTerminal ==
    [][ \A c \in Conns :
          phase[c] \in ClosedPhases
            => /\ c \notin Registered
               /\ c \notin Registered'
               /\ written'[c] = written[c]
               /\ phase'[c] \in ClosedPhases ]_vars

\* C7 witness: connection 1 was closed after a transport error, then an
\* update was published to connection 2 only
C7_Witness ==
    /\ phase[1] = "errored"
    /\ joined[2] = 0
    /\ npublished = 1
    /\ res = OkResponse
    /\ written[1] = << ConnectedChunk >>
    /\ written[2] = << ConnectedChunk, DataChunk(initialData) >>

\* C8: registering writes the connectivity line and nothing else; from
\* then on a connection's output only grows, by the message of the publish
\* being made, once per publish.
C8_NoReplay ==
    [][ \A c \in Conns :
          /\ phase[c] = "idle" => written[c] = << >>
          /\ IF phase[c] = "idle" /\ phase'[c] # "idle"
             THEN written'[c] = << ConnectedChunk >>
             ELSE \/ written'[c] = written[c]
                  \/ /\ UpdateStep
                     /\ npublished' = npublished + 1
                     /\ written'[c] =
                          Append(written[c], DataChunk(initialData')) ]_vars

\* C8 witness: connection 2 registered after the first publish and holds
\* the connectivity line followed by the second publish only
C8_Witness ==
    /\ npublished = 2
    /\ res = OkResponse
    /\ joined[2] = 1
    /\ written[2] = << ConnectedChunk, DataChunk(initialData) >>
    /\ Len(written[1]) = 3

Received(c) == [i \in 1..(Len(written[c]) - 1) |-> written[c][i + 1].data]

\* C10: the i-th message a subscriber holds is that of the i-th publish
\* since it registered: a registered subscriber holds one message per
\* publish, none merged or left out, two subscribers hold the same message
\* for the same publish, and after a successful update the stored snapshot
\* is that update's alone and is the latest message of every registered
\* subscriber.
C10_ArrivalOrder ==
    /\ \A c \in Conns :
         phase[c] # "idle"
           => /\ joined[c] + Len(Received(c)) <= npublished
              /\ c \in Registered => joined[c] + Len(Received(c)) = npublished
    /\ \A c, d \in Conns :
         (phase[c] # "idle" /\ phase[d] # "idle")
           => \A i \in 1..Len(Received(c)), j \in 1..Len(Received(d)) :
                joined[c] + i = joined[d] + j => Received(c)[i] = Received(d)[j]
    /\ res = OkResponse
         => /\ npublished > 0
            /\ origin = [title |-> reqs, challenges |-> reqs, teams |-> reqs]
            /\ \A c \in Registered :
                 Len(Received(c)) > 0
                   => Received(c)[Len(Received(c))] = initialData

\* C10 witness: two different snapshots were published and connection 1,
\* registered throughout, holds both in that order
C10_Witness ==
    /\ reqs = 2
    /\ npublished = 2
    /\ 1 \in Registered
    /\ Len(Received(1)) = 2
    /\ Received(1)[1] # Received(1)[2]
    /\ Received(1)[2] = initialData

\* A step that handles one POST /update and answers 200
SuccessfulUpdate == reqs' = reqs + 1 /\ res' = OkResponse

\* 'teams' is absent, is not an array, or is an array of a length other than 2
TeamsUnusable(data) ==
    \/ "teams" \notin DOMAIN data
    \/ ~IsArray(data.teams)
    \/ Len(data.teams.jsarray) # 2

\* The same body with 'teams' omitted
WithoutTeams(data) == [k \in DOMAIN data \ {"teams"} |-> data[k]]

\* C11: the stored teams are null or a list of exactly two teams; a
\* successful update whose 'teams' is not an array of length 2 stores what
\* the same update without 'teams' stores: teams null, and every challenge
\* with team "" and team_color "".
C11_OnlyPairsOfTeams ==
    [][ SuccessfulUpdate =>
          \A data \in AugmentBodies :
            PostUpdate(data) =>
              /\ \/ TEAM_INFO'.teams = NULL
                 \/ /\ IsArray(TEAM_INFO'.teams)
                    /\ Len(TEAM_INFO'.teams.jsarray) = 2
              /\ TeamsUnusable(data) =>
                   /\ PostUpdate(WithoutTeams(data))
                   /\ TEAM_INFO'.teams = NULL
                   /\ \A id \in DOMAIN augmented_challenge_list' :
                        /\ GetString(augmented_challenge_list'[id], "team") = ""
                        /\ GetString(augmented_challenge_list'[id], "team_color") = "" ]_vars

\* The color of the i-th team of an accepted list: its explicit color, or
\* the palette color of its position
ListedColor(teams, i) ==
    IF "color" \in DOMAIN teams.jsarray[i]
    THEN teams.jsarray[i].color
    ELSE DEFAULT_TEAM_COLORS[i]

\* C12: after a successful update with a two-entry 'teams', a challenge
\* whose team is the name of a listed team has that team and the team's
\* explicit color, or the palette color of the team's position; any other
\* challenge has team "" and team_color "".
C12_TeamResolution ==
    [][ SuccessfulUpdate =>
          \A data \in AugmentBodies :
            (~TeamsUnusable(data) /\ PostUpdate(data)) =>
              \A id \in DOMAIN data.challenges.jsmap :
                LET info == data.challenges.jsmap[id]
                    out == augmented_challenge_list'[id]
                    at == { i \in 1..2 :
                              /\ "team" \in DOMAIN info
                              /\ TEAM_INFO'.teams.jsarray[i].name = info.team }
                IN  IF at # {}
                    THEN /\ out.team = info.team
                         /\ \E i \in at : out.team_color = ListedColor(data.teams, i)
                    ELSE /\ out.team = ""
                         /\ out.team_color = "" ]_vars

\* The string is empty or all whitespace
Blank(s) == \A i \in 1..Len(s) : s[i] \in Whitespace

\* The input description is present and not blank
Described(info) == "description" \in DOMAIN info /\ ~Blank(info.description)

\* C13: for a challenge id with no entry in the metadata store, the stored
\* description is the input description when that is not blank, and ""
\* when it is absent, empty or all whitespace.
C13_DescriptionWithoutMetadata ==
    [][ SuccessfulUpdate =>
          \A data \in AugmentBodies :
            PostUpdate(data) =>
              \A id \in DOMAIN data.challenges.jsmap \ DOMAIN CHALLENGE_METADATA :
                augmented_challenge_list'[id].description =
                  IF Described(data.challenges.jsmap[id])
                  THEN data.challenges.jsmap[id].description
                  ELSE << >> ]_vars

\* C14: for a challenge id with an entry in the metadata store, the stored
\* description is the input description when that is not blank, else the
\* entry's description when it has one, else "".
C14_DescriptionWithMetadata ==
    [][ SuccessfulUpdate =>
          \A data \in AugmentBodies :
            PostUpdate(data) =>
              \A id \in DOMAIN data.challenges.jsmap \cap DOMAIN CHALLENGE_METADATA :
                augmented_challenge_list'[id].description =
                  IF Described(data.challenges.jsmap[id])
                  THEN data.challenges.jsmap[id].description
                  ELSE IF "description" \in DOMAIN CHALLENGE_METADATA[id]
                  THEN CHALLENGE_METADATA[id].description
                  ELSE << >> ]_vars

\* C14 witness: the store describes ach:diamond and the update's own
\* description " X " was stored for it, untrimmed
C14_Witness ==
    /\ res = OkResponse
    /\ AchDiamond \in DOMAIN CHALLENGE_METADATA
    /\ "description" \in DOMAIN CHALLENGE_METADATA[AchDiamond]
    /\ AchDiamond \in DOMAIN augmented_challenge_list
    /\ augmented_challenge_list[AchDiamond].description = <<" ","X"," ">>

\* The metadata store has no name for the id
NoMetadataName(id) ==
    id \notin DOMAIN CHALLENGE_METADATA \/ "name" \notin DOMAIN CHALLENGE_METADATA[id]

\* C15: a challenge id the metadata store has no name for is stored under
\* the title-cased display name (the part after the last colon, or the
\* whole id; first character upper-cased, the rest lower-cased), and with
\* the fallback icon when the store has no entry for it; "ach:diamond" with
\* {done: true} and no entry is stored as {done: true, name: "Diamond",
\* icon: FALLBACK_ICON, description: "", team: "", team_color: ""}.
C15_FallbackName ==
    [][ SuccessfulUpdate =>
          \A data \in AugmentBodies :
            PostUpdate(data) =>
              \A id \in DOMAIN data.challenges.jsmap :
                LET out == augmented_challenge_list'[id]
                IN  /\ NoMetadataName(id)
                         => out.name = toTitleCase(displayName(id))
                    /\ id \notin DOMAIN CHALLENGE_METADATA
                         => out.icon = FALLBACK_ICON
                    /\ ( /\ id = AchDiamond
                         /\ id \notin DOMAIN CHALLENGE_METADATA
                         /\ data.challenges.jsmap[id] = [done |-> TRUE] )
                         => out = [done |-> TRUE,
                                   name |-> <<"D","i","a","m","o","n","d">>,
                                   icon |-> FALLBACK_ICON,
                                   description |-> << >>,
                                   team |-> "", team_color |-> ""] ]_vars

\* Arguments of augmentChallengeData: a challenge of the team "Red",
\* without teams and with the teams Red and Blue
AugmentCalls ==
    { <<JSMap(AchDiamond :> [done |-> TRUE, team |-> "Red"]), teamInfo>> :
        teamInfo \in { InitialTeamInfo,
                       [teams |-> MapTeams(JSArray(<< [name |-> "Red"],
                                                      [name |-> "Blue", color |-> "#000"] >>))] } }

SnapshotOf(data) ==
    LET teams == IF TeamsUnusable(data) THEN NULL ELSE MapTeams(data.teams)
    IN  [title |-> data.title,
         challenges |-> augmentChallengeData(data.challenges, [teams |-> teams]),
         teams |-> teams]

\* C18: whatever was stored before, a successful update stores the snapshot
\* of its own body and publishes that to every registered subscriber; after
\* an update without 'teams' no challenge has a team or a team color.
C18_SnapshotFromBodyAlone ==
    [][ SuccessfulUpdate =>
          \A data \in RepeatBodies :
            PostUpdate(data) =>
              /\ CurrentSnapshot' = SnapshotOf(data)
              /\ \A c \in Registered :
                   written'[c][Len(written'[c])]
                     = DataChunk(JSONStringify(SnapshotOf(data)))
              /\ "teams" \notin DOMAIN data =>
                   \A id \in DOMAIN augmented_challenge_list' :
                     /\ augmented_challenge_list'[id].team = ""
                     /\ augmented_challenge_list'[id].team_color = "" ]_vars

\* C18 witness: an update with the teams Red and Blue was published, then
\* the same challenge of team "Red" without 'teams': it is stored and
\* published with no team
C18_Witness ==
    /\ reqs = 2
    /\ npublished = 2
    /\ res = OkResponse
    /\ 1 \in Registered
    /\ Len(Received(1)) = 2
    /\ Received(1)[1].teams # NULL
    /\ Received(1)[1].challenges[AchDiamond].team = "Red"
    /\ Received(1)[2] = initialData
    /\ TEAM_INFO.teams = NULL
    /\ augmented_challenge_list[AchDiamond].team = ""
    /\ augmented_challenge_list[AchDiamond].team_color = ""

\* The /stream connections that are open: the request was handled and
\* neither 'error' nor 'close' has been
OpenConns == { c \in Conns : phase[c] \in {"open", "broken"} }

\* C19: before and after every step the registered handlers are those of
\* the open connections, one each; closing a connection removes its handler
\* and no other, and a 'close' after an 'error' removes nothing.
C19_RegisteredIffOpen ==
    [][ /\ Registered = OpenConns
        /\ Registered' = OpenConns'
        /\ Len(listeners') = Cardinality(OpenConns')
        /\ \A c \in Conns :
             /\ (phase[c] \notin ClosedPhases /\ phase'[c] \in ClosedPhases)
                  => Registered' = Registered \ {c}
             /\ (phase[c] = "errored" /\ phase'[c] = "closed")
                  => listeners' = listeners ]_vars

\* C19 witness: a write to connection 1 failed during an update and its
\* 'error' has been handled, so only connection 2, still open, is registered
C19_Witness ==
    /\ phase[1] = "errored"
    /\ 1 \in dropped
    /\ phase[2] = "open"
    /\ listeners = << 2 >>
    /\ Len(written[2]) = 2

\* The snapshot the server starts with
PlaceholderSnapshot ==
    [title |-> InitialTitle,
     challenges |-> InitialChallengeList,
     teams |-> InitialTeamInfo.teams]

\* C20: what GET / would embed is the placeholder until the first publish,
\* changes only in a step that publishes, and is then the message that
\* step writes to the subscribers.
C20_StoredIsLastPublished ==
    [][ /\ npublished = 0 => initialData = JSONStringify(PlaceholderSnapshot)
        /\ npublished' = npublished => initialData' = initialData
        /\ npublished' # npublished =>
             \A c \in Registered :
               written'[c][Len(written'[c])] = DataChunk(initialData') ]_vars

===========================================================================
